---- MODULE Spec2Model ----
(***************************************************************************)
(* Model of the autotrader service (src/main.py) and of the brokerage      *)
(* session wrapper it drives (src/pocket_option_api.py).                   *)
(*                                                                         *)
(* The service is one asyncio event loop running two coroutines:           *)
(*   - autotrader_management_loop: every 15 s fetches the users with       *)
(*     autotrading enabled, closes the sessions of the others, opens the   *)
(*     missing ones and runs check_new_signals_and_trade for every user    *)
(*     with a session;                                                     *)
(*   - handle_signal_message: the Telegram handler inserting rows into     *)
(*     the 'signals' table.                                                *)
(* The coroutines called by the loop (connect, close, place_trade) never   *)
(* suspend, and the Supabase calls of a task are synchronous, so the tasks *)
(* handed to asyncio.gather run one after the other, in list order, and    *)
(* the handler runs only while the loop awaits to_thread or sleep.         *)
(* main() ends the service on KeyboardInterrupt (action Shutdown).         *)
(*                                                                         *)
(* Two components are also modelled on their own, each under its own       *)
(* specification: one PocketOptionAPI object driven by any sequence of its *)
(* methods (ApiSpec), and the TelegramParser of src/telegram_parser.py fed *)
(* by live events and by parse_history runs (ParserSpec).                  *)
(*                                                                         *)
(* Time is in seconds; the clock is read at the ticks of the loop.         *)
(***************************************************************************)
EXTENDS Integers, Sequences, FiniteSets, TLC

\* ---------------------------------------------------------------- bounds
NumUsers == 2
MaxSignals == 2
MaxTicks == 2
MaxTrades == 2
MaxCalls == 4
NumChats == 2
MaxMsgId == 2
MaxSaves == 2

\* ------------------------------------------------------ program constants
MIN_CONFIDENCE == 95
StaleWindow == 60
TickPeriod == 15
BatchLimit == 5
TRADE_AMOUNT == 1
\* MAX_RISK_PER_TRADE of config.py (0.02), in percent of the balance
MAX_RISK_PER_TRADE == 2
\* the balance connect() gives a demo account (a real one gets 0.0)
DemoBalance == 10000

Users == 1 .. NumUsers
\* the users whose row has is_real_account set (the even ids)
RealAccounts == { u \in Users : u % 2 = 0 }
\* the user_id of a row of 'signals' written without one
NoUser == 0
\* confidences the regex (\d+)% of handle_signal_message can deliver
Confidences == {94, 95, 97}

VARIABLES
    now,              \* datetime.now(timezone.utc), seconds
    signals,          \* table 'signals': sequence of rows, id = index
    active_sessions,  \* dict user_id -> PocketOptionAPI object (its fields)
    api_objects,      \* per user: number of PocketOptionAPI objects with connected = True
    pc,               \* position of autotrader_management_loop
    active_users,     \* rows returned by _get_active_autotraders_sync (user ids, in order)
    store_ok,         \* FALSE when the last fetch of the users raised (and returned [])
    idx,              \* position of 'for user in active_users'
    trade_tasks,      \* coroutines collected for asyncio.gather (their user ids)
    task,             \* index of the running task of the gather
    tpc,              \* position of the running check_new_signals_and_trade
    batch,            \* 'signals' of the running task: ids still to iterate
    handled,          \* what trade_on_signal did with the signal awaiting its mark
    trades,           \* venue log: the place_trade calls made, in order, with their results
    open_attempts,    \* this tick: number of session opens attempted, per user
    open_failed,      \* this tick: users whose open failed
    closed_now,       \* this tick: users whose session was closed and removed
    prev_ids,         \* current_active_ids of the previous tick
    prev_failed,      \* open_failed of the previous tick
    auth_ok,          \* users for whom some connect() has returned True
    po,               \* ApiSpec: one PocketOptionAPI object (its fields)
    po_calls,         \* ApiSpec: the methods called on po, in order, with their results
    texts,            \* ParserSpec: message.text of every message of the target chats
    processed_messages, \* ParserSpec: TelegramParser.processed_messages
    save_calls,       \* ParserSpec: per message, number of save_to_supabase calls
    stored,           \* ParserSpec: per message, number of rows inserted into parsed_signals
    redelivered,      \* ParserSpec: messages delivered again after their first delivery
    history_chat      \* ParserSpec: parse_history: index of the chat to read next, 0 if no run

loopVars == << now, signals, active_sessions, api_objects, pc, active_users, store_ok,
               idx, trade_tasks, task, tpc, batch, handled, trades, open_attempts,
               open_failed, closed_now, prev_ids, prev_failed, auth_ok >>

apiVars == << po, po_calls >>

parserVars == << texts, processed_messages, save_calls, stored, redelivered,
                 history_chat >>

vars == << loopVars, apiVars, parserVars >>

\* --------------------------------------------------------------- helpers
Range(q) == { q[i] : i \in DOMAIN q }

Injective(q) == \A i, j \in DOMAIN q : q[i] = q[j] => i = j

Min(a, b) == IF a < b THEN a ELSE b

NoTrade == [called |-> FALSE, success |-> FALSE, error |-> ""]

\* ----------------------------------------------------- PocketOptionAPI
\* __init__: a fresh object is not connected and has balance 0.0
NewApi(demo) == [connected |-> FALSE, demo |-> demo, balance |-> 0]

\* connect(): the try body sets connected and the balance and returns True;
\* the except branch clears connected and returns False
Connect(api, ok) ==
    IF ok
    THEN [api EXCEPT !.connected = TRUE,
                     !.balance = IF api.demo THEN DemoBalance ELSE 0]
    ELSE [api EXCEPT !.connected = FALSE]

\* close(): ws is None, so the only effect is connected = False
Close(api) == [api EXCEPT !.connected = FALSE]

\* faulty variant: the guard on self.connected is missing
PlaceTrade_Unguarded(api, venue_ok) ==
    [called |-> TRUE, success |-> venue_ok,
     error |-> IF venue_ok THEN "" ELSE "exception"]

\* place_trade(): refuses when not connected; otherwise the venue result
\* (success, or the failure result of the except branch)
PlaceTrade(api, venue_ok) ==
    IF ~api.connected
    THEN [called |-> TRUE, success |-> FALSE, error |-> "Not connected"]
    ELSE [called |-> TRUE, success |-> venue_ok,
          error |-> IF venue_ok THEN "" ELSE "exception"]

\* check_trade_result(): None when not connected; otherwise the result
\* record, or None through the except branch
CheckTradeResult(api, ok) ==
    IF ~api.connected THEN "None" ELSE IF ok THEN "pending" ELSE "None"

\* ------------------------------------------------------- trade_on_signal
\* faulty variant: the threshold taken as exclusive
BelowMinConfidence_Exclusive(confidence) == confidence <= MIN_CONFIDENCE

BelowMinConfidence(confidence) == confidence < MIN_CONFIDENCE

\* the result of trade_on_signal: no venue call below MIN_CONFIDENCE
TradeOnSignal(api, confidence, venue_ok) ==
    IF BelowMinConfidence(confidence)
    THEN NoTrade
    ELSE PlaceTrade(api, venue_ok)

\* ------------------------------------------- check_new_signals_and_trade
Unprocessed(sigs) == { i \in DOMAIN sigs : ~sigs[i].processed }

\* faulty variant: the batch ordered oldest first (desc=False)
FetchResults_OldestFirst(sigs) ==
    LET un == { i \in DOMAIN sigs : ~sigs[i].processed }
        k  == IF BatchLimit < Cardinality(un) THEN BatchLimit ELSE Cardinality(un)
    IN  { q \in [1 .. k -> un] :
            /\ \A i, j \in 1 .. k : q[i] = q[j] => i = j
            /\ \A i, j \in 1 .. k :
                   i < j => sigs[q[i]].created_at <= sigs[q[j]].created_at
            /\ \A s \in un \ { q[i] : i \in 1 .. k } :
                   \A i \in 1 .. k : sigs[q[i]].created_at <= sigs[s].created_at }

\* .eq('processed_by_autotrader', False).order('created_at', desc=True).limit(5):
\* every sequence the query can return (rows of equal created_at in any order)
FetchResults(sigs) ==
    LET un == Unprocessed(sigs)
        k  == Min(BatchLimit, Cardinality(un))
    IN  { q \in [1 .. k -> un] :
            /\ Injective(q)
            /\ \A i, j \in 1 .. k :
                   i < j => sigs[q[i]].created_at >= sigs[q[j]].created_at
            /\ \A s \in un \ Range(q) :
                   \A i \in 1 .. k : sigs[q[i]].created_at >= sigs[s].created_at }

\* 'if not signal.get('asset') or not signal.get('direction'): continue'
Incomplete(sig) == ~sig.asset \/ ~sig.direction

\* faulty variant: the window taken as one hour (timedelta(hours=1))
IsStale_Hour(sig, t) == t - sig.created_at > 60 * StaleWindow

\* 'datetime.now(timezone.utc) - signal_time > timedelta(minutes=1)'
IsStale(sig, t) == t - sig.created_at > StaleWindow

\* faulty variant: an update that writes the flag of every row (True for id only)
MarkProcessed_AllRows(sigs, id) ==
    [i \in DOMAIN sigs |-> [sigs[i] EXCEPT !.processed = (i = id)]]

\* update({'processed_by_autotrader': True}).eq('id', id)
MarkProcessed(sigs, id) == [sigs EXCEPT ![id].processed = TRUE]

\* ------------------------------------------- autotrader_management_loop
\* current_active_ids = {user['user_id'] for user in active_users}
current_active_ids == Range(active_users)

\* faulty variant: every session is closed at each tick
SessionsToRemove_All(sessions, ids) == DOMAIN sessions

\* sessions_to_remove = list(active_sessions.keys() - current_active_ids)
SessionsToRemove(sessions, ids) == DOMAIN sessions \ ids

\* faulty variant: the membership test is missing
NeedsOpen_Always(user_id, sessions) == TRUE

\* faulty variant: no new attempt for a user whose open failed in the
\* previous tick
NeedsOpen_GiveUp(user_id, sessions) ==
    user_id \notin DOMAIN sessions /\ user_id \notin prev_failed

\* 'if user_id not in active_sessions'
NeedsOpen(user_id, sessions) == user_id \notin DOMAIN sessions

\* the registry after 'active_sessions[user_id] = po_api'
WithSession(sessions, user_id, api) ==
    [u \in DOMAIN sessions \cup {user_id} |->
        IF u = user_id THEN api ELSE sessions[u]]

\* faulty variant: the result of connect() is ignored
Registered_Always(sessions, user_id, api) == WithSession(sessions, user_id, api)

\* 'if await po_api.connect(): active_sessions[user_id] = po_api'
Registered(sessions, user_id, api) ==
    IF api.connected THEN WithSession(sessions, user_id, api) ELSE sessions

\* faulty variant: 'break' instead of 'continue'
AfterOpenException_Break(i, users) == Len(users) + 1

\* 'continue' of line 239: the position of the for loop after an exception
AfterOpenException(i, users) == i + 1

\* faulty variant: the task is added when the session is opened and again
\* after the membership test
WithTask_Twice(tasks, user_id, sessions, opened) ==
    IF user_id \in DOMAIN sessions
    THEN IF opened
         THEN Append(Append(tasks, user_id), user_id)
         ELSE Append(tasks, user_id)
    ELSE tasks

\* lines 242-243: one task for the user, if the user has a session (opened
\* in this pass of the for loop or held before)
WithTask(tasks, user_id, sessions, opened) ==
    IF user_id \in DOMAIN sessions THEN Append(tasks, user_id) ELSE tasks

\* faulty variant: no handler around the body of the tick
AfterTickException_Dead == "dead"

\* 'except Exception' of lines 249-250: an exception leaving the body of
\* the tick is logged and the loop goes on to its sleep
AfterTickException == "except"

\* faulty variant: the gather is not awaited to its end
TasksLeft_None(t, tasks) == FALSE

\* the gather after task t returned: the tasks behind it are still to run
TasksLeft(t, tasks) == t < Len(tasks)

\* faulty variant: the exception leaves the task and ends the gather
TasksLeftAfterException_None(t, tasks) == FALSE

\* 'except Exception' of lines 197-198: the exception raised in task t is
\* logged inside the task, so the gather goes on with the tasks behind it
TasksLeftAfterException(t, tasks) == t < Len(tasks)

\* faulty variant: the sessions are closed but stay in the registry
WithoutSessions_Kept(sessions, gone) == sessions

\* the registry after 'del active_sessions[user_id]' for each user of gone
WithoutSessions(sessions, gone) ==
    [u \in DOMAIN sessions \ gone |-> sessions[u]]

\* the lists the users query can return: any enabled set, in any row order
UserLists ==
    UNION { { q \in [1 .. Cardinality(S) -> S] : Injective(q) } : S \in SUBSET Users }

\* the row handle_signal_message inserts (created_at is the column default;
\* signal_data names no user)
NewSignal(confidence, t) ==
    [asset |-> TRUE, direction |-> TRUE, confidence |-> confidence,
     created_at |-> t, processed |-> FALSE, user_id |-> NoUser]

\* the table when the service starts: empty, or holding one unprocessed row
\* that an earlier run of the handler inserted StaleWindow seconds ago
StartTables ==
    { << >> } \cup { << NewSignal(c, 0 - StaleWindow) >> : c \in Confidences }

\* ---------------------------------------------------- TelegramParser
\* target_chats, and the message ids of a chat
Chats == 1 .. NumChats
MsgIds == 1 .. MaxMsgId
Messages == Chats \X MsgIds

\* message.text: empty, a text parse_signal returns None for, or a signal
TextKinds == {"empty", "other", "signal"}

\* message_id = f"{event.chat_id}_{event.message.id}": two integers joined
\* by one '_', so the string determines the pair and the pair the string
MessageKey(chat_id, id) == << chat_id, id >>

\* faulty variant: the membership test is missing
AlreadyProcessed_Never(key, processed) == FALSE

\* 'if message_id in self.processed_messages: return'
AlreadyProcessed(key, processed) == key \in processed

\* parse_signal(): a dict when the text holds a symbol and a direction
ParseSignal(text) == text = "signal"

\* the parser object and the table it writes, as one record
ParserNow ==
    [processed |-> processed_messages, save_calls |-> save_calls,
     stored |-> stored, redelivered |-> redelivered]

\* process_message() and save_to_supabase(): the key is added before the
\* text is looked at; the insert of save_to_supabase may raise (save_ok
\* FALSE), which save_to_supabase logs
ProcessMessage(st, chat_id, id, text, save_ok) ==
    LET key  == MessageKey(chat_id, id)
        seen == [st EXCEPT !.processed = @ \cup {key},
                           !.redelivered = IF key \in st.processed
                                           THEN @ \cup {key} ELSE @]
    IN  IF AlreadyProcessed(key, st.processed)
        THEN [st EXCEPT !.redelivered = @ \cup {key}]
        ELSE IF text = "empty" \/ ~ParseSignal(text)
             THEN seen
             ELSE [seen EXCEPT !.save_calls[key] = @ + 1,
                               !.stored[key] = IF save_ok THEN @ + 1 ELSE @]

\* 'for message in messages: await self.process_message(...)' of
\* parse_history, for the messages q (ids) of chat_id
RECURSIVE ProcessAll(_, _, _, _)
ProcessAll(st, chat_id, q, oks) ==
    IF q = << >>
    THEN st
    ELSE ProcessAll(ProcessMessage(st, chat_id, Head(q),
                                   texts[MessageKey(chat_id, Head(q))], oks[Head(q)]),
                    chat_id, Tail(q), oks)

\* what get_messages can return for a chat: any of its messages, newest first
HistoryLists ==
    UNION { { q \in [1 .. Cardinality(S) -> S] :
                \A i, j \in DOMAIN q : i < j => q[i] > q[j] } : S \in SUBSET MsgIds }

\* a parser just constructed, over chats whose messages have no text
ParserIdle ==
    /\ texts = [m \in Messages |-> "empty"]
    /\ processed_messages = {}
    /\ save_calls = [m \in Messages |-> 0]
    /\ stored = [m \in Messages |-> 0]
    /\ redelivered = {}
    /\ history_chat = 0

\* the management loop and its tables when the service starts
LoopInit ==
    /\ now = 0
    /\ signals \in StartTables
    /\ active_sessions = << >>
    /\ api_objects = [u \in Users |-> 0]
    /\ pc = "fetch_users"
    /\ active_users = << >>
    /\ store_ok = TRUE
    /\ idx = 1
    /\ trade_tasks = << >>
    /\ task = 1
    /\ tpc = "idle"
    /\ batch = << >>
    /\ handled = NoTrade
    /\ trades = << >>
    /\ open_attempts = [u \in Users |-> 0]
    /\ open_failed = {}
    /\ closed_now = {}
    /\ prev_ids = {}
    /\ prev_failed = {}
    /\ auth_ok = {}

\* the component specifications at rest
ApiIdle == po = NewApi(TRUE) /\ po_calls = << >>

Init ==
    /\ LoopInit
    /\ ApiIdle
    /\ ParserIdle

\* ------------------------------------------------------------- actions
\* lines 205-207: the users query succeeded and returned the rows q
FetchUsers ==
    /\ pc = "fetch_users"
    /\ \E q \in UserLists : active_users' = q
    /\ store_ok' = TRUE
    /\ pc' = "close"
    /\ UNCHANGED << now, signals, active_sessions, api_objects, idx, trade_tasks,
                    task, tpc, batch, handled, trades, open_attempts, open_failed,
                    closed_now, prev_ids, prev_failed, auth_ok >>
    /\ UNCHANGED << apiVars, parserVars >>

\* lines 135-137: the users query raised; _get_active_autotraders_sync
\* logs and returns []
FetchUsersError ==
    /\ pc = "fetch_users"
    /\ active_users' = << >>
    /\ store_ok' = FALSE
    /\ pc' = "close"
    /\ UNCHANGED << now, signals, active_sessions, api_objects, idx, trade_tasks,
                    task, tpc, batch, handled, trades, open_attempts, open_failed,
                    closed_now, prev_ids, prev_failed, auth_ok >>
    /\ UNCHANGED << apiVars, parserVars >>

\* lines 206-207, 249-250: an exception leaves the body of the tick before
\* anything was done (to_thread raises, or a row has no user_id)
TickRaises ==
    /\ pc = "fetch_users"
    /\ pc' = AfterTickException
    /\ UNCHANGED << now, signals, active_sessions, api_objects, active_users,
                    store_ok, idx, trade_tasks, task, tpc, batch, handled, trades,
                    open_attempts, open_failed, closed_now, prev_ids, prev_failed,
                    auth_ok >>
    /\ UNCHANGED << apiVars, parserVars >>

\* lines 209-214: close and delete every session whose user is not active
CloseInactive ==
    /\ pc = "close"
    /\ LET gone == SessionsToRemove(active_sessions, current_active_ids)
       IN  /\ active_sessions' = WithoutSessions(active_sessions, gone)
           /\ api_objects' =
                 [u \in Users |->
                     IF u \in gone /\ active_sessions[u].connected
                        /\ ~Close(active_sessions[u]).connected
                     THEN api_objects[u] - 1
                     ELSE api_objects[u]]
           /\ closed_now' = gone
    /\ trade_tasks' = << >>
    /\ idx' = 1
    /\ pc' = "open"
    /\ UNCHANGED << now, signals, active_users, store_ok, task, tpc, batch, handled,
                    trades, open_attempts, open_failed, prev_ids, prev_failed,
                    auth_ok >>
    /\ UNCHANGED << apiVars, parserVars >>

\* lines 222-235, 242-243: no session yet; the object is built, connect()
\* returns ok (True, or False through its except branch), and the task is
\* added if the user now has a session
OpenSession ==
    /\ pc = "open"
    /\ idx <= Len(active_users)
    /\ \E ok \in BOOLEAN :
       LET user_id == active_users[idx]
           po_api  == Connect(NewApi(user_id \notin RealAccounts), ok)
       IN  /\ NeedsOpen(user_id, active_sessions)
           /\ active_sessions' = Registered(active_sessions, user_id, po_api)
           /\ api_objects' =
                 [api_objects EXCEPT
                     ![user_id] = IF po_api.connected THEN @ + 1 ELSE @]
           /\ open_attempts' = [open_attempts EXCEPT ![user_id] = @ + 1]
           /\ open_failed' =
                 IF po_api.connected THEN open_failed ELSE open_failed \cup {user_id}
           /\ auth_ok' = IF po_api.connected THEN auth_ok \cup {user_id} ELSE auth_ok
           /\ trade_tasks' = WithTask(trade_tasks, user_id, active_sessions', TRUE)
    /\ idx' = idx + 1
    /\ UNCHANGED << now, signals, pc, active_users, store_ok, task, tpc, batch,
                    handled, trades, closed_now, prev_ids, prev_failed >>
    /\ UNCHANGED << apiVars, parserVars >>

\* lines 237-239: building the session raised (a row without the
\* credential column); the loop continues with the next user
OpenSessionRaised ==
    /\ pc = "open"
    /\ idx <= Len(active_users)
    /\ LET user_id == active_users[idx]
       IN  /\ NeedsOpen(user_id, active_sessions)
           /\ open_attempts' = [open_attempts EXCEPT ![user_id] = @ + 1]
           /\ open_failed' = open_failed \cup {user_id}
    /\ idx' = AfterOpenException(idx, active_users)
    /\ UNCHANGED << now, signals, active_sessions, api_objects, pc, active_users,
                    store_ok, trade_tasks, task, tpc, batch, handled, trades,
                    closed_now, prev_ids, prev_failed, auth_ok >>
    /\ UNCHANGED << apiVars, parserVars >>

\* lines 222, 242-243: the user already has a session; only the task is added
KeepSession ==
    /\ pc = "open"
    /\ idx <= Len(active_users)
    /\ LET user_id == active_users[idx]
       IN  /\ ~NeedsOpen(user_id, active_sessions)
           /\ trade_tasks' = WithTask(trade_tasks, user_id, active_sessions, FALSE)
    /\ idx' = idx + 1
    /\ UNCHANGED << now, signals, active_sessions, api_objects, pc, active_users,
                    store_ok, task, tpc, batch, handled, trades, open_attempts,
                    open_failed, closed_now, prev_ids, prev_failed, auth_ok >>
    /\ UNCHANGED << apiVars, parserVars >>

\* lines 246-247: the for loop is over; gather the tasks, if any
StartGather ==
    /\ pc = "open"
    /\ idx > Len(active_users)
    /\ IF trade_tasks # << >>
       THEN pc' = "gather" /\ task' = 1 /\ tpc' = "fetch"
       ELSE pc' = "sleep" /\ task' = 1 /\ tpc' = "idle"
    /\ UNCHANGED << now, signals, active_sessions, api_objects, active_users,
                    store_ok, idx, trade_tasks, batch, handled, trades,
                    open_attempts, open_failed, closed_now, prev_ids, prev_failed,
                    auth_ok >>
    /\ UNCHANGED << apiVars, parserVars >>

\* the running task is over; the next task of the gather starts if the
\* gather goes on (more), else the loop sleeps
EndTask(more) ==
    /\ batch' = << >>
    /\ handled' = NoTrade
    /\ task' = task + 1
    /\ IF more
       THEN pc' = "gather" /\ tpc' = "fetch"
       ELSE pc' = "sleep" /\ tpc' = "idle"

\* lines 172-173: the signals query of the running task returns q
FetchSignals ==
    /\ pc = "gather" /\ tpc = "fetch"
    /\ \E q \in FetchResults(signals) : batch' = q
    /\ tpc' = "handle"
    /\ UNCHANGED << now, signals, active_sessions, api_objects, pc, active_users,
                    store_ok, idx, trade_tasks, task, handled, trades,
                    open_attempts, open_failed, closed_now, prev_ids, prev_failed,
                    auth_ok >>
    /\ UNCHANGED << apiVars, parserVars >>

\* lines 172, 197-198: the signals query raised
FetchSignalsError ==
    /\ pc = "gather" /\ tpc = "fetch"
    /\ EndTask(TasksLeftAfterException(task, trade_tasks))
    /\ UNCHANGED << now, signals, active_sessions, api_objects, active_users,
                    store_ok, idx, trade_tasks, trades, open_attempts, open_failed,
                    closed_now, prev_ids, prev_failed, auth_ok >>
    /\ UNCHANGED << apiVars, parserVars >>

\* lines 176-182: a row without asset or direction, or an old one: continue
SkipSignal ==
    /\ pc = "gather" /\ tpc = "handle"
    /\ batch # << >>
    /\ LET signal == signals[Head(batch)]
       IN  Incomplete(signal) \/ IsStale(signal, now)
    /\ batch' = Tail(batch)
    /\ UNCHANGED << now, signals, active_sessions, api_objects, pc, active_users,
                    store_ok, idx, trade_tasks, task, tpc, handled, trades,
                    open_attempts, open_failed, closed_now, prev_ids, prev_failed,
                    auth_ok >>
    /\ UNCHANGED << apiVars, parserVars >>

\* lines 186-192 and trade_on_signal: the venue call, if any, and its result
TradeSignal ==
    /\ pc = "gather" /\ tpc = "handle"
    /\ batch # << >>
    /\ LET id      == Head(batch)
           signal  == signals[id]
           user_id == trade_tasks[task]
           po_api  == active_sessions[user_id]
       IN  /\ ~Incomplete(signal)
           /\ ~IsStale(signal, now)
           /\ \E venue_ok \in BOOLEAN :
                 LET trade == TradeOnSignal(po_api, signal.confidence, venue_ok)
                 IN  /\ handled' = trade
                     /\ trade.called => Len(trades) < MaxTrades
                     /\ trades' =
                           IF trade.called
                           THEN Append(trades, [signal |-> id, user |-> user_id,
                                                success |-> trade.success])
                           ELSE trades
    /\ tpc' = "mark"
    /\ UNCHANGED << now, signals, active_sessions, api_objects, pc, active_users,
                    store_ok, idx, trade_tasks, task, batch, open_attempts,
                    open_failed, closed_now, prev_ids, prev_failed, auth_ok >>
    /\ UNCHANGED << apiVars, parserVars >>

\* lines 194-195: the signal is marked as processed
MarkSignal ==
    /\ pc = "gather" /\ tpc = "mark"
    /\ signals' = MarkProcessed(signals, Head(batch))
    /\ batch' = Tail(batch)
    /\ handled' = NoTrade
    /\ tpc' = "handle"
    /\ UNCHANGED << now, active_sessions, api_objects, pc, active_users, store_ok,
                    idx, trade_tasks, task, trades, open_attempts, open_failed,
                    closed_now, prev_ids, prev_failed, auth_ok >>
    /\ UNCHANGED << apiVars, parserVars >>

\* lines 195, 197-198: the update raised; the rest of the batch is dropped
MarkSignalError ==
    /\ pc = "gather" /\ tpc = "mark"
    /\ EndTask(TasksLeftAfterException(task, trade_tasks))
    /\ UNCHANGED << now, signals, active_sessions, api_objects, active_users,
                    store_ok, idx, trade_tasks, trades, open_attempts, open_failed,
                    closed_now, prev_ids, prev_failed, auth_ok >>
    /\ UNCHANGED << apiVars, parserVars >>

\* line 175: the for loop over the batch is over
TaskDone ==
    /\ pc = "gather" /\ tpc = "handle"
    /\ batch = << >>
    /\ EndTask(TasksLeft(task, trade_tasks))
    /\ UNCHANGED << now, signals, active_sessions, api_objects, active_users,
                    store_ok, idx, trade_tasks, trades, open_attempts, open_failed,
                    closed_now, prev_ids, prev_failed, auth_ok >>
    /\ UNCHANGED << apiVars, parserVars >>

\* line 253: asyncio.sleep(15); the locals of the tick are dead from here on
\* and what the tick did becomes the record of the previous tick (a tick
\* that raised before its reconcile leaves the record as it was)
Sleep ==
    /\ pc \in {"sleep", "except"}
    /\ now < MaxTicks * TickPeriod
    /\ now' = now + TickPeriod
    /\ pc' = "fetch_users"
    /\ active_users' = << >>
    /\ store_ok' = TRUE
    /\ idx' = 1
    /\ trade_tasks' = << >>
    /\ task' = 1
    /\ prev_ids' = IF pc = "sleep" THEN current_active_ids ELSE prev_ids
    /\ prev_failed' = IF pc = "sleep" THEN open_failed ELSE prev_failed
    /\ open_attempts' = [u \in Users |-> 0]
    /\ open_failed' = {}
    /\ closed_now' = {}
    /\ UNCHANGED << signals, active_sessions, api_objects, tpc, batch, handled,
                    trades, auth_ok >>
    /\ UNCHANGED << apiVars, parserVars >>

\* lines 278-304: a chat message matching the pattern arrives while the
\* management loop is suspended (in to_thread or in sleep)
HandleSignalMessage ==
    /\ pc \in {"fetch_users", "sleep", "except"}
    /\ Len(signals) < MaxSignals
    /\ \E confidence \in Confidences :
          signals' = Append(signals, NewSignal(confidence, now))
    /\ UNCHANGED << now, active_sessions, api_objects, pc, active_users, store_ok,
                    idx, trade_tasks, task, tpc, batch, handled, trades,
                    open_attempts, open_failed, closed_now, prev_ids, prev_failed,
                    auth_ok >>
    /\ UNCHANGED << apiVars, parserVars >>

\* main(), lines 336-339: KeyboardInterrupt ends asyncio.run, wherever the
\* loop is; the coroutines and their locals are gone, the handler logs a
\* line and the process ends. Nothing else is done.
Shutdown ==
    /\ pc # "stopped"
    /\ pc' = "stopped"
    /\ tpc' = "idle"
    /\ active_users' = << >>
    /\ store_ok' = TRUE
    /\ idx' = 1
    /\ trade_tasks' = << >>
    /\ task' = 1
    /\ batch' = << >>
    /\ handled' = NoTrade
    /\ open_attempts' = [u \in Users |-> 0]
    /\ open_failed' = {}
    /\ closed_now' = {}
    /\ UNCHANGED << now, signals, active_sessions, api_objects, trades, prev_ids,
                    prev_failed, auth_ok >>
    /\ UNCHANGED << apiVars, parserVars >>

Next ==
    \/ FetchUsers
    \/ FetchUsersError
    \/ TickRaises
    \/ CloseInactive
    \/ OpenSession
    \/ OpenSessionRaised
    \/ KeepSession
    \/ StartGather
    \/ FetchSignals
    \/ FetchSignalsError
    \/ SkipSignal
    \/ TradeSignal
    \/ MarkSignal
    \/ MarkSignalError
    \/ TaskDone
    \/ Sleep
    \/ HandleSignalMessage
    \/ Shutdown

Spec == Init /\ [][Next]_vars

\* =========================================== one PocketOptionAPI object
\* a fresh object (demo or real) nobody has called yet
ApiInit ==
    /\ LoopInit /\ signals = << >>
    /\ ParserIdle
    /\ po \in { NewApi(demo) : demo \in BOOLEAN }
    /\ po_calls = << >>

\* connect() is called; it returns ok
ApiConnect ==
    /\ Len(po_calls) < MaxCalls
    /\ \E ok \in BOOLEAN :
          /\ po' = Connect(po, ok)
          /\ po_calls' = Append(po_calls, [op |-> "connect", ok |-> ok, error |-> ""])
    /\ UNCHANGED << loopVars, parserVars >>

\* close() is called
ApiClose ==
    /\ Len(po_calls) < MaxCalls
    /\ po' = Close(po)
    /\ po_calls' = Append(po_calls, [op |-> "close", ok |-> TRUE, error |-> ""])
    /\ UNCHANGED << loopVars, parserVars >>

\* place_trade() is called
ApiPlaceTrade ==
    /\ Len(po_calls) < MaxCalls
    /\ \E venue_ok \in BOOLEAN :
          LET trade == PlaceTrade(po, venue_ok)
          IN  po_calls' = Append(po_calls, [op |-> "place_trade", ok |-> trade.success,
                                            error |-> trade.error])
    /\ UNCHANGED << po, loopVars, parserVars >>

\* check_trade_result() is called
ApiCheckTradeResult ==
    /\ Len(po_calls) < MaxCalls
    /\ \E ok \in BOOLEAN :
          LET result == CheckTradeResult(po, ok)
          IN  po_calls' = Append(po_calls, [op |-> "check_trade_result",
                                            ok |-> result # "None", error |-> ""])
    /\ UNCHANGED << po, loopVars, parserVars >>

ApiNext ==
    \/ ApiConnect
    \/ ApiClose
    \/ ApiPlaceTrade
    \/ ApiCheckTradeResult

ApiSpec == ApiInit /\ [][ApiNext]_vars

\* ===================================================== TelegramParser
\* a parser just constructed, over chats whose messages have any texts
ParserInit ==
    /\ LoopInit /\ signals = << >>
    /\ ApiIdle
    /\ texts \in [Messages -> TextKinds]
    /\ processed_messages = {}
    /\ save_calls = [m \in Messages |-> 0]
    /\ stored = [m \in Messages |-> 0]
    /\ redelivered = {}
    /\ history_chat = 0

\* the parser and its table become st (the count of calls per message is
\* kept within MaxSaves)
ParserBecomes(st) ==
    /\ \A m \in Messages : st.save_calls[m] <= MaxSaves
    /\ processed_messages' = st.processed
    /\ save_calls' = st.save_calls
    /\ stored' = st.stored
    /\ redelivered' = st.redelivered

\* lines 50-52: a NewMessage event of a target chat reaches the handler
LiveMessage ==
    /\ \E chat_id \in Chats, id \in MsgIds, save_ok \in BOOLEAN :
          ParserBecomes(ProcessMessage(ParserNow, chat_id, id,
                                       texts[MessageKey(chat_id, id)], save_ok))
    /\ UNCHANGED << texts, history_chat, loopVars, apiVars >>

\* parse_history() is called
StartHistory ==
    /\ history_chat = 0
    /\ history_chat' = 1
    /\ UNCHANGED << texts, processed_messages, save_calls, stored, redelivered,
                    loopVars, apiVars >>

\* lines 171-189: the messages of the next chat are read and processed
HistoryChat ==
    /\ history_chat \in Chats
    /\ \E q \in HistoryLists, oks \in [MsgIds -> BOOLEAN] :
          ParserBecomes(ProcessAll(ParserNow, history_chat, q, oks))
    /\ history_chat' = IF history_chat < NumChats THEN history_chat + 1 ELSE 0
    /\ UNCHANGED << texts, loopVars, apiVars >>

\* lines 173-178, 191-192: get_entity or get_messages raised; next chat
HistoryChatError ==
    /\ history_chat \in Chats
    /\ history_chat' = IF history_chat < NumChats THEN history_chat + 1 ELSE 0
    /\ UNCHANGED << texts, processed_messages, save_calls, stored, redelivered,
                    loopVars, apiVars >>

ParserNext ==
    \/ LiveMessage
    \/ StartHistory
    \/ HistoryChat
    \/ HistoryChatError

ParserSpec == ParserInit /\ [][ParserNext]_vars

\* ================================================================ claims
\* positions of the venue log holding the calls made for (signal s, user u)
CallsFor(s, u) ==
    { i \in DOMAIN trades : trades[i].signal = s /\ trades[i].user = u }

\* the reconcile of the running tick is over
Reconciled == pc \in {"gather", "sleep"}

\* the users for whom the running tick attempted an open
Attempted == { u \in Users : open_attempts[u] > 0 }

\* the signal whose trade_on_signal has returned and whose mark is pending
AwaitingMark == pc = "gather" /\ tpc = "mark"

\* C1: at most one place_trade call ever succeeds for a given
\* (signal id, user id) pair, over any sequence of ticks.
C1_AtMostOnePlacement ==
    \A s \in DOMAIN signals : \A u \in Users :
        Cardinality({ i \in CallsFor(s, u) : trades[i].success }) <= 1

\* C2: whenever place_trade has been called for a signal, the mark recording
\* the signal as taken is already written (the mark precedes the venue call).
C2_MarkBeforeVenueCall ==
    \A i \in DOMAIN trades : signals[trades[i].signal].processed

\* C3 (as stated): a fresh signal handled on a connected session ends in a
\* placed trade if and only if its confidence is at least MIN_CONFIDENCE.
C3_PlacedIffAtLeastMin ==
    AwaitingMark =>
        (handled.success <=> signals[Head(batch)].confidence >= MIN_CONFIDENCE)

\* C3 (amended): for a fresh signal handled on a connected session,
\* place_trade is called if and only if the confidence is at least
\* MIN_CONFIDENCE (boundary included); a trade is placed only by such a call,
\* and no signal below MIN_CONFIDENCE ever appears in the venue log.
C3_CalledIffAtLeastMin ==
    /\ AwaitingMark =>
          /\ handled.called <=> signals[Head(batch)].confidence >= MIN_CONFIDENCE
          /\ handled.success => handled.called
    /\ \A i \in DOMAIN trades : signals[trades[i].signal].confidence >= MIN_CONFIDENCE

\* C3 witness: a signal of confidence exactly MIN_CONFIDENCE has been placed
C3_BoundaryPlaced ==
    /\ AwaitingMark
    /\ signals[Head(batch)].confidence = MIN_CONFIDENCE
    /\ handled.success

\* C4: a signal older than the staleness window is never traded: in no step
\* taken while its age exceeds StaleWindow does the venue log gain a call for
\* it, whatever its confidence (its age only grows, so this covers every
\* later tick).
C4_StaleNeverTraded ==
    [][ \A s \in DOMAIN signals :
            now - signals[s].created_at > StaleWindow =>
                \A i \in DOMAIN trades' : trades'[i].signal = s => i \in DOMAIN trades
      ]_vars

\* C4 witness: the running task has passed over an unprocessed stale signal
\* whose confidence would have allowed the trade
C4_StaleSkipped ==
    /\ pc = "gather" /\ tpc = "handle"
    /\ \E s \in DOMAIN signals :
          /\ ~signals[s].processed
          /\ now - signals[s].created_at > StaleWindow
          /\ signals[s].confidence >= MIN_CONFIDENCE
          /\ s \notin Range(batch)

\* C5: once a place_trade call for a (signal, user) has failed, no later
\* place_trade call is made for the same (signal, user).
C5_NoCallAfterFailure ==
    \A i, j \in DOMAIN trades :
        (i < j /\ ~trades[i].success) =>
            ~(trades[j].signal = trades[i].signal /\ trades[j].user = trades[i].user)

\* C6: at every point there is at most one connected PocketOptionAPI object
\* per user, and it is the one the registry holds.
C6_OneLiveSessionPerUser ==
    \A u \in Users :
        /\ api_objects[u] <= 1
        /\ u \in DOMAIN active_sessions =>
              active_sessions[u].connected /\ api_objects[u] = 1

\* C6 witness: a user active in two ticks in a row kept the session of the
\* first tick (the second reconcile opened nothing for this user)
C6_SessionKept ==
    /\ Reconciled
    /\ \E u \in current_active_ids \cap prev_ids :
          u \in DOMAIN active_sessions /\ open_attempts[u] = 0

\* C7 (as stated): a reconcile run with the same desired set as the previous
\* run attempts no open and closes nothing.
C7_SecondRunDoesNothing ==
    (Reconciled /\ current_active_ids = prev_ids) =>
        closed_now = {} /\ Attempted = {}

\* C7 (amended): a reconcile run with the same desired set as the previous
\* run closes nothing and opens nothing for the users who got a session; it
\* attempts an open only for the users whose open failed in the previous run.
C7_SecondRunOnlyRetriesFailed ==
    (Reconciled /\ current_active_ids = prev_ids) =>
        closed_now = {} /\ Attempted \subseteq prev_failed

\* C7 witness: second run with the same set of two users, one holding a
\* session since the first run and one whose open had failed
C7_SameSetTwice ==
    /\ pc = "sleep"
    /\ current_active_ids = prev_ids
    /\ prev_ids = Users
    /\ prev_failed # {}
    /\ \E u \in Users \ prev_failed : u \in DOMAIN active_sessions

\* C8: after the reconcile of a tick the registry holds sessions of desired
\* users only, the users closed in the tick are gone and hold no connection,
\* every desired user without a session has had exactly one open attempt, and
\* no user more than one (a failed open does not stop the loop).
C8_ReconcileComplete ==
    Reconciled =>
        /\ DOMAIN active_sessions \subseteq current_active_ids
        /\ closed_now \cap DOMAIN active_sessions = {}
        /\ \A u \in Users \ DOMAIN active_sessions : api_objects[u] = 0
        /\ \A u \in current_active_ids :
              u \notin DOMAIN active_sessions => open_attempts[u] = 1
        /\ \A u \in Users :
              open_attempts[u] <= 1 /\ (open_attempts[u] = 1 => u \in current_active_ids)

\* C8 witness: the open of the first user of the list failed and the second
\* user was opened in the same reconcile
C8_FailureThenOpen ==
    /\ Reconciled
    /\ Len(active_users) >= 2
    /\ active_users[1] \in open_failed
    /\ active_users[2] \in DOMAIN active_sessions
    /\ open_attempts[active_users[2]] = 1

\* C9: a user for whom no connect() has ever succeeded has no session in the
\* registry, no signal-check task and no call in the venue log, and after
\* each reconcile every desired user holding a session has a task.
C9_NoSessionWithoutAuth ==
    /\ \A u \in Users \ auth_ok :
          /\ u \notin DOMAIN active_sessions
          /\ u \notin Range(trade_tasks)
          /\ \A i \in DOMAIN trades : trades[i].user # u
    /\ Reconciled =>
          \A v \in current_active_ids \cap DOMAIN active_sessions :
              v \in Range(trade_tasks)

\* C9 witness: a user's open failed in two ticks in a row while another
\* user's task placed a trade
C9_FailingUserOthersServed ==
    /\ pc = "sleep"
    /\ \E u \in Users \ auth_ok :
          /\ u \in prev_failed /\ u \in open_failed
          /\ \E i \in DOMAIN trades : trades[i].user # u /\ trades[i].success

\* C10: a row marked as processed is never changed again: no step of the
\* trading loop or of the message handler resets the flag or alters the row.
C10_ProcessedIsFinal ==
    [][ \A i \in DOMAIN signals :
            signals[i].processed =>
                i \in DOMAIN signals' /\ signals'[i] = signals[i]
      ]_vars

\* C10 witness: a processed row exists while the loop is about to mark
\* another signal
C10_ProcessedThenMarking ==
    /\ AwaitingMark
    /\ \E i \in DOMAIN signals : signals[i].processed

\* C11: every signal of the table ends up marked as handled: when a task
\* moves on from a signal of its batch to the next one, the signal it leaves
\* is marked (a stale signal included, whose age can only grow).
C11_LeftSignalIsMarked ==
    [][ (pc = "gather" /\ tpc = "handle" /\ tpc' = "handle"
         /\ batch # << >> /\ batch' = Tail(batch))
            => signals'[Head(batch)].processed
      ]_vars

\* C12: when a tick is over, every task collected for the gather has run,
\* and every desired user holding a session had a task: neither a failed
\* open nor an exception in another user's task took a user's signal check
\* away.
C12_EveryReadyUserChecked ==
    pc = "sleep" =>
        /\ task = Len(trade_tasks) + 1
        /\ \A u \in current_active_ids \cap DOMAIN active_sessions :
              \E i \in 1 .. task - 1 : trade_tasks[i] = u

\* C12 witness: the tick is over, the task of the first user traded a signal
\* and raised at its mark, and the task of the second user then traded the
\* same signal
C12_SecondTaskRanAfterRaise ==
    /\ pc = "sleep"
    /\ now = 0
    /\ Len(trade_tasks) = 2
    /\ Len(trades) = 2
    /\ trades[1].user = trade_tasks[1]
    /\ trades[2].user = trade_tasks[2]
    /\ trades[1].signal = trades[2].signal
    /\ signals[trades[1].signal].processed

\* C13: a tick whose fetch of the desired users failed changes no state: it
\* closes no session and opens none.
C13_FailedFetchChangesNothing ==
    ~store_ok => closed_now = {} /\ Attempted = {}

\* a step of autotrader_management_loop or of one of its tasks
LoopStep ==
    \/ FetchUsers \/ FetchUsersError \/ TickRaises \/ CloseInactive
    \/ OpenSession \/ OpenSessionRaised \/ KeepSession \/ StartGather
    \/ FetchSignals \/ FetchSignalsError \/ SkipSignal \/ TradeSignal
    \/ MarkSignal \/ MarkSignalError \/ TaskDone \/ Sleep

\* C14: the loop survives every failure of a tick: as long as the service
\* is not shut down the loop has a next step to take (within the horizon of
\* the clock and of the venue log), whatever was raised before, and a tick
\* begins only out of the sleep, one period after the previous one.
C14_LoopSurvivesFailures ==
    /\ []( (pc # "stopped" /\ now < MaxTicks * TickPeriod /\ Len(trades) < MaxTrades)
              => ENABLED LoopStep )
    /\ [][ (pc # "fetch_users" /\ pc' = "fetch_users")
              => pc \in {"sleep", "except"} /\ now' = now + TickPeriod
         ]_vars

\* C14 witness: a tick begins after a tick whose mark raised (the traded
\* signal is still unprocessed) and after a tick whose body raised
C14_TickAfterFailures ==
    /\ pc = "fetch_users"
    /\ now = MaxTicks * TickPeriod
    /\ prev_ids # {}
    /\ active_sessions # << >>
    /\ \E i \in DOMAIN trades : ~signals[trades[i].signal].processed

\* C15 (as stated): of two venue calls made for the same user, the one for
\* the signal created earlier is made first.
C15_OlderPlacedFirst ==
    \A i, j \in DOMAIN trades :
        (i < j /\ trades[i].user = trades[j].user) =>
            signals[trades[i].signal].created_at <= signals[trades[j].signal].created_at

\* C15 (amended): within one run of a user's signal check the trades are
\* placed newest signal first: the signals still to iterate are always in
\* descending order of created_at, and every venue call is made by the
\* running task for the first of them.
C15_NewestPlacedFirst ==
    /\ [](\A i, j \in DOMAIN batch :
              i < j => signals[batch[i]].created_at >= signals[batch[j]].created_at)
    /\ [][ trades' # trades =>
              /\ pc = "gather" /\ batch # << >> /\ batch' = batch
              /\ trades' = Append(trades, [signal  |-> Head(batch),
                                           user    |-> trade_tasks[task],
                                           success |-> handled'.success])
         ]_vars
    /\ [][ (pc = "gather" /\ pc' = "gather" /\ task' = task /\ tpc # "fetch")
              => batch' \in {batch, Tail(batch)}
         ]_vars

\* C15 witness: one task has traded the newer of two signals and then the
\* older one
C15_NewerThenOlder ==
    /\ AwaitingMark
    /\ Len(trades) = 2
    /\ trades[1].user = trade_tasks[task]
    /\ trades[2].user = trade_tasks[task]
    /\ trades[2].signal = Head(batch)
    /\ signals[trades[1].signal].created_at > signals[trades[2].signal].created_at

\* C16: no two venue calls are in flight on one user's session: a gather
\* holds at most one task per user, a task exists only for a user holding a
\* session, only one task runs at a time, and a venue call whose signal is
\* not yet marked belongs to that task.
C16_OneTaskPerUser ==
    /\ \A i, j \in DOMAIN trade_tasks : trade_tasks[i] = trade_tasks[j] => i = j
    /\ pc = "gather" =>
          /\ task \in DOMAIN trade_tasks
          /\ trade_tasks[task] \in DOMAIN active_sessions
          /\ tpc \in {"fetch", "handle", "mark"}
    /\ pc # "gather" => tpc = "idle" /\ batch = << >>
    /\ handled.called => pc = "gather" /\ tpc = "mark"

\* C16 witness: in one gather the task of one user has placed a trade and
\* the task of another user is placing one
C16_TwoUsersInOneGather ==
    /\ pc = "gather" /\ tpc = "mark" /\ task = 2
    /\ handled.called
    /\ \E i \in DOMAIN trades : trades[i].user = trade_tasks[1]
    /\ trades[Len(trades)].user = trade_tasks[2]
    /\ trade_tasks[1] # trade_tasks[2]
    /\ now = 0

\* C17: after shutdown no session of the registry is still connected, and
\* no connected PocketOptionAPI object is left.
C17_StoppedMeansClosed ==
    pc = "stopped" =>
        /\ \A u \in DOMAIN active_sessions : ~active_sessions[u].connected
        /\ \A u \in Users : api_objects[u] = 0

\* C18: no venue call is made when the amount of the trade exceeds the
\* per-trade risk limit, MAX_RISK_PER_TRADE percent of the balance of the
\* user's session.
C18_NoTradeOverRiskLimit ==
    handled.called =>
        100 * TRADE_AMOUNT <= MAX_RISK_PER_TRADE * active_sessions[trade_tasks[task]].balance

\* C19: the signals a task has fetched are unprocessed signals of the
\* task's own user, at most BatchLimit of them.
C19_OwnSignalsOnly ==
    (pc = "gather" /\ tpc \in {"handle", "mark"}) =>
        /\ Len(batch) <= BatchLimit
        /\ \A i \in DOMAIN batch :
              /\ ~signals[batch[i]].processed
              /\ signals[batch[i]].user_id = trade_tasks[task]

\* C20: a failure while handling one signal is isolated to that signal: when
\* a task ends, no signal of its batch behind the one being handled is left
\* without having been iterated.
C20_RestOfBatchHandled ==
    [][ (pc = "gather" /\ pc' \in {"gather", "sleep"} /\ task' = task + 1)
            => Len(batch) <= 1
      ]_vars

\* C21: ticks never overlap: when the loop sleeps every task of the gather
\* has returned, the clock of the next tick is read only out of the sleep
\* with no task running, and the registry is changed only by the reconcile
\* of the running tick.
C21_TicksDoNotOverlap ==
    /\ [](pc = "sleep" => task > Len(trade_tasks) /\ tpc = "idle")
    /\ [][ now' # now =>
              pc \in {"sleep", "except"} /\ pc' = "fetch_users" /\ tpc = "idle"
         ]_vars
    /\ [][ active_sessions' # active_sessions => pc \in {"close", "open"} ]_vars

\* C21 witness: the second tick starts after a tick whose gather ran the
\* tasks of two users, one of which traded
C21_NextTickAfterGather ==
    /\ pc = "fetch_users"
    /\ now = TickPeriod
    /\ prev_ids = Users
    /\ DOMAIN active_sessions = Users
    /\ trades # << >>

\* C22: a user whose open failed in the previous tick and who is still
\* desired gets exactly one new attempt in this tick, no user gets more
\* than one attempt in a tick, and a user whose new attempt succeeded holds
\* a session and has a signal-check task in this same tick.
C22_FailedOpenRetriedNextTick ==
    Reconciled =>
        /\ \A u \in Users : open_attempts[u] <= 1
        /\ \A u \in current_active_ids \cap prev_failed :
              /\ open_attempts[u] = 1
              /\ u \notin open_failed =>
                    /\ u \in DOMAIN active_sessions
                    /\ \E i \in DOMAIN trade_tasks : trade_tasks[i] = u

\* C22 witness: the open of a user failed in the previous tick and
\* succeeded in this one, and the user's task is running
C22_RetrySucceeded ==
    /\ pc = "gather"
    /\ trade_tasks[task] \in prev_failed
    /\ open_attempts[trade_tasks[task]] = 1
    /\ trade_tasks[task] \in DOMAIN active_sessions

\* C23: no trade is placed for a user who is not in the desired set fetched
\* by the running tick: once the close loop is over the registry and the
\* tasks hold desired users only, the users closed hold no connection, and
\* every venue call is made for a desired user.
C23_NoTradeForUndesired ==
    /\ [](pc \in {"open", "gather", "sleep"} =>
              /\ DOMAIN active_sessions \subseteq { active_users[i] : i \in DOMAIN active_users }
              /\ \A i \in DOMAIN trade_tasks :
                    \E k \in DOMAIN active_users : active_users[k] = trade_tasks[i]
              /\ \A u \in closed_now : api_objects[u] = 0)
    /\ [][ trades' # trades =>
              \E k \in DOMAIN active_users :
                  active_users[k] = trades'[Len(trades')].user
         ]_vars

\* C23 witness: a user who traded in an earlier tick is no longer desired,
\* the session was closed, and the task of another user is placing a trade
C23_ClosedUserNotTraded ==
    /\ AwaitingMark
    /\ handled.called
    /\ \E u \in closed_now :
          /\ trades[1].user = u
          /\ u \notin DOMAIN active_sessions
          /\ trade_tasks[task] # u

\* the object is connected when call i is made, by the calls made before it:
\* some connect() returned True and no close() or failing connect() followed
ConnectedAt(i) ==
    \E j \in 1 .. i - 1 :
        /\ po_calls[j].op = "connect" /\ po_calls[j].ok
        /\ \A k \in j + 1 .. i - 1 :
              /\ po_calls[k].op # "close"
              /\ ~(po_calls[k].op = "connect" /\ ~po_calls[k].ok)

C25_AtMostOneSavePerMessage ==
    \A m \in Messages :
        /\ save_calls[m] <= 1
        /\ stored[m] <= save_calls[m]
        /\ save_calls[m] = 1 => m \in processed_messages

\* C25 witness: in the middle of a parse_history run a message delivered
\* more than once has been saved once
C25_RedeliveredSavedOnce ==
    /\ history_chat = NumChats
    /\ \E m \in redelivered : save_calls[m] = 1 /\ stored[m] = 1

====
